---- MODULE Spec2Model ----
(***************************************************************************)
(* Model of Makerates/Functions.py (UCLCHEM): the network loader, the      *)
(* species filter, the reaction checker, the constituent analyser and the  *)
(* ODE writer.  Python strings are modelled as sequences of one-character  *)
(* strings, so that slicing, rfind and suffix tests are modelled by what   *)
(* they do.                                                                *)
(***************************************************************************)
EXTENDS Integers, Sequences, FiniteSets, TLC

(***************************************************************************)
(* Bounds of the model.                                                    *)
(***************************************************************************)
MaxSpecies == 3
MaxRows == 3
MaxOdeSpecies == 3
MaxOdeRows == 3

(***************************************************************************)
(* Strings used by the loader.                                             *)
(***************************************************************************)
sEmpty == << >>
sNAN == <<"N","A","N">>
sNAME == <<"N","A","M","E">>
sH == <<"H">>
sH2 == <<"H","2">>
sCO == <<"C","O">>
sHash == <<"#">>
sElectron == <<"E","-">>
sPHOTON == <<"P","H","O","T","O","N">>
sFREEZE == <<"F","R","E","E","Z","E">>
sDESOH2 == <<"D","E","S","O","H","2">>

\* the fixed part of keepList
KeepTokens ==
  { sEmpty, sNAN, sHash, sElectron, <<"e","-">>, <<"E","L","E","C","T","R">>,
    sPHOTON, <<"C","R","P">>, <<"C","R","P","H","O","T">>, sFREEZE,
    <<"C","R","H">>, <<"P","H","O","T","D">>, <<"T","H","E","R","M">>,
    <<"X","R","A","Y">>, <<"X","R","S","E","C">>, <<"X","R","L","Y","A">>,
    <<"X","R","P","H","O","T">>, sDESOH2, <<"D","E","S","C","R">>,
    <<"D","E","U","V","C","R">> }

(***************************************************************************)
(* Generic helpers standing for Python list operations.                    *)
(***************************************************************************)
SeqsUpTo(S, n) == UNION { [1..k -> S] : k \in 0..n }

Range(s) == { s[k] : k \in 1..Len(s) }

\* del list[k]  (k is 1-based here)
RemoveAt(s, k) == [ m \in 1..(Len(s) - 1) |-> IF m < k THEN s[m] ELSE s[m + 1] ]

\* list.count(x)
Count(s, x) == Cardinality({ k \in 1..Len(s) : s[k] = x })

(***************************************************************************)
(* State.                                                                  *)
(***************************************************************************)
VARIABLES
  pc,            \* position of the Makerates run
  speciesFile,   \* rows of the species file (names), header first
  reactionFile,  \* rows of the reaction file (participant fields)
  ftype,         \* "UCL" or "UMIST"
  speciesList,   \* list of Species (names)
  reactionList,  \* list of Reaction
  lostSpecies,   \* report of filter_species: removed orphans
  removedDup,    \* report of filter_species: "One entry of X removed"
  dupPairs,      \* report of reaction_check: pairs printed (1-based)
  output,        \* text written by write_odes_f90
  nameParts,     \* how each name given to find_constituents was composed
  fcPos,         \* find_constituents: position of the current species
  fcI,           \* find_constituents: i
  fcJ,           \* find_constituents: j (-1 while not assigned)
  atoms,         \* find_constituents: atoms of the current species
  atomsOut,      \* atoms of the species already analysed
  n_atoms,       \* species.n_atoms of the species already analysed
  diagnostics,   \* number of "contains elements not in element list" printed
  tlOrig,        \* truncate_line: the string it was called with
  tl             \* truncate_line: its locals input, result, lines, lhs

vars == << pc, speciesFile, reactionFile, ftype, speciesList, reactionList,
           lostSpecies, removedDup, dupPairs, output,
           nameParts, fcPos, fcI, fcJ, atoms, atomsOut, n_atoms, diagnostics,
           tlOrig, tl >>

netVars == << speciesFile, reactionFile, ftype, speciesList, reactionList,
              lostSpecies, removedDup, dupPairs, output >>

fcVars == << nameParts, fcPos, fcI, fcJ, atoms, atomsOut, n_atoms, diagnostics >>

tlVars == << tlOrig, tl >>

\* truncate_line not running on its own
TLIdle ==
  /\ tlOrig = << >>
  /\ tl = [ input |-> << >>, result |-> << >>, lines |-> 0, lhs |-> << >> ]

\* find_constituents not running
FCIdle ==
  /\ nameParts = << >>
  /\ fcPos = 0
  /\ fcI = 0
  /\ fcJ = -1
  /\ atoms = << >>
  /\ atomsOut = << >>
  /\ n_atoms = << >>
  /\ diagnostics = 0

(***************************************************************************)
(* class Species and class Reaction.  A row is the list of fields the csv   *)
(* reader returns for one line (the empty list for a blank line); reading   *)
(* inputRow[k] beyond the end of the row raises IndexError.                 *)
(***************************************************************************)
\* Species.__init__ reads inputRow[0] .. inputRow[6]
SpeciesRaises(inputRow) == Len(inputRow) < 7

\* a Species is kept as its name: no code assigns the name again, and the
\* other fields read from the row are only copied to the written files
Species(inputRow) == inputRow[1]

NANCheck(a) == IF a /= sEmpty THEN a ELSE sNAN

\* Reaction.__init__ reads inputRow[0] .. inputRow[11]
ReactionRaises(inputRow) == Len(inputRow) < 12

Reaction(inputRow) ==
  [ reactants |-> << inputRow[1], inputRow[2], NANCheck(inputRow[3]) >>,
    products  |-> << inputRow[4], NANCheck(inputRow[5]),
                     NANCheck(inputRow[6]), NANCheck(inputRow[7]) >>,
    alpha     |-> inputRow[8],
    beta      |-> inputRow[9],
    gamma     |-> inputRow[10],
    templow   |-> inputRow[11],
    temphigh  |-> inputRow[12] ]

(***************************************************************************)
(* read_species_file: every row but the header becomes a Species.  The     *)
(* result is [list, err]; err stands for the IndexError that ends the run. *)
(***************************************************************************)
RECURSIVE read_species_file(_)
read_species_file(file) ==
  IF file = << >> THEN [ list |-> << >>, err |-> FALSE ]
  ELSE LET row == Head(file)
           rest == read_species_file(Tail(file))
       IN IF Len(row) = 0 THEN [ list |-> << >>, err |-> TRUE ]
          ELSE IF row[1] = sNAME THEN rest
          ELSE IF SpeciesRaises(row) THEN [ list |-> << >>, err |-> TRUE ]
          ELSE [ list |-> << Species(row) >> \o rest.list, err |-> rest.err ]

(***************************************************************************)
(* read_reaction_file                                                      *)
(***************************************************************************)
keepList(sl) == KeepTokens \cup Range(sl)

\* the values the UCL branch writes over row[10] and row[11], as the csv
\* writer prints them
sTempLow == << "0", ".", "0" >>
sTempHigh == << "1", "0", "0", "0", "0", ".", "0" >>

\* a loader that tests the reactant columns only
RowKeptUCL_reactantsOnly(row, sl) ==
  \A k \in 1..Len(row) : k <= 3 => row[k] \in keepList(sl)

\* the test of the UCL branch: all(x in keepList for x in row[0:7]); the
\* slice of a short row is short, it never raises
RowKeptUCL(row, sl) == \A k \in 1..Len(row) : k <= 7 => row[k] \in keepList(sl)

\* row[10]=0.0 ; row[11]=10000.0 raise IndexError on a row of fewer than
\* twelve fields
UCLRaises(row) == Len(row) < 12

UCLRow(row) == [ row EXCEPT ![11] = sTempLow, ![12] = sTempHigh ]

\* [row[2],row[3],row[4],row[5],row[6],row[7]] is built before the test and
\* raises IndexError on a row of fewer than eight fields
UMISTRaises(row) == Len(row) < 8

\* the test of the UMIST branch
RowKeptUMIST(row, sl) == \A k \in 3..8 : row[k] \in keepList(sl)

\* row[2:4]+['']+row[4:8]+row[9:]
UMISTRow(row) ==
  SubSeq(row, 3, 4) \o << sEmpty >> \o SubSeq(row, 5, 8) \o SubSeq(row, 10, Len(row))

\* the loop over the rows; the result is [list, err]
RECURSIVE ReadRows(_, _, _)
ReadRows(file, sl, ft) ==
  IF file = << >> THEN [ list |-> << >>, err |-> FALSE ]
  ELSE LET row == Head(file)
           rest == ReadRows(Tail(file), sl, ft)
           raised == [ list |-> << >>, err |-> TRUE ]
       IN IF ft = "UMIST"
          THEN IF UMISTRaises(row) THEN raised
               ELSE IF ~ RowKeptUMIST(row, sl) THEN rest
               ELSE IF ReactionRaises(UMISTRow(row)) THEN raised
               ELSE [ list |-> << Reaction(UMISTRow(row)) >> \o rest.list, err |-> rest.err ]
          ELSE IF ft = "UCL"
          THEN IF ~ RowKeptUCL(row, sl) THEN rest
               ELSE IF UCLRaises(row) THEN raised
               ELSE [ list |-> << Reaction(UCLRow(row)) >> \o rest.list, err |-> rest.err ]
          ELSE rest

read_reaction_file(file, sl, ft) == ReadRows(file, sl, ft)

(***************************************************************************)
(* filter_species                                                          *)
(***************************************************************************)
\* species.name in reaction.reactants or species.name in reaction.products
UsedIn(name, reaction) ==
  name \in Range(reaction.reactants) \/ name \in Range(reaction.products)

keepFlag(name, rl) == \E r \in 1..Len(rl) : UsedIn(name, rl[r])

\* "for species in speciesList: ... speciesList.remove(species)": the list
\* iterator keeps a position k; removing the current element shifts the
\* rest left while the position still advances.
RECURSIVE OrphanLoop(_, _, _, _)
OrphanLoop(sl, k, lost, rl) ==
  IF k > Len(sl) THEN [ list |-> sl, lost |-> lost ]
  ELSE IF keepFlag(sl[k], rl)
       THEN OrphanLoop(sl, k + 1, lost, rl)
       ELSE OrphanLoop(RemoveAt(sl, k), k + 1, Append(lost, sl[k]), rl)

\* the double loop that fills duplicate_list
RECURSIVE DuplicateLoop(_, _, _)
DuplicateLoop(sl, i, dl) ==
  IF i > Len(sl) THEN dl
  ELSE IF (\E j \in 1..Len(sl) : j /= i /\ sl[j] = sl[i]) /\ sl[i] \notin Range(dl)
       THEN DuplicateLoop(sl, i + 1, Append(dl, sl[i]))
       ELSE DuplicateLoop(sl, i + 1, dl)

\* "while not removed": delete the first entry carrying the name
FirstIndex(sl, name) == CHOOSE k \in 1..Len(sl) :
                          sl[k] = name /\ \A m \in 1..(k - 1) : sl[m] /= name

RECURSIVE RemoveLoop(_, _)
RemoveLoop(sl, dl) ==
  IF dl = << >> THEN sl
  ELSE RemoveLoop(RemoveAt(sl, FirstIndex(sl, Head(dl))), Tail(dl))

filter_species(sl, rl) ==
  LET o == OrphanLoop(sl, 1, << >>, rl)
      dl == DuplicateLoop(o.list, 1, << >>)
  IN [ list |-> RemoveLoop(o.list, dl), lost |-> o.lost, removed |-> dl ]

(***************************************************************************)
(* reaction_check: the duplicate-reaction report                           *)
(***************************************************************************)
\* a comparison that forgets the products
SameSets_reactantsOnly(r1, r2) == Range(r1.reactants) = Range(r2.reactants)

SameSets(r1, r2) ==
  /\ Range(r1.reactants) = Range(r2.reactants)
  /\ Range(r1.products) = Range(r2.products)

\* inner loop over j for a fixed i; st = [pairs, dl]
RECURSIVE CheckInner(_, _, _, _)
CheckInner(rl, i, j, st) ==
  IF j > Len(rl) THEN st
  ELSE IF i /= j /\ SameSets(rl[i], rl[j])
       THEN CheckInner(rl, i, j + 1,
                       [ pairs |-> Append(st.pairs, << i, j >>),
                         dl |-> st.dl \cup { i, j } ])
       ELSE CheckInner(rl, i, j + 1, st)

RECURSIVE CheckOuter(_, _, _)
CheckOuter(rl, i, st) ==
  IF i > Len(rl) THEN st
  ELSE IF i \notin st.dl
       THEN CheckOuter(rl, i + 1, CheckInner(rl, i, 1, st))
       ELSE CheckOuter(rl, i + 1, st)

reaction_check(rl) == CheckOuter(rl, 1, [ pairs |-> << >>, dl |-> {} ]).pairs

(***************************************************************************)
(* String helpers: str(), repetition, slices with Python's index rules.    *)
(***************************************************************************)
DigitChar == << "0", "1", "2", "3", "4", "5", "6", "7", "8", "9" >>

IsDigit(c) == \E d \in 1..10 : DigitChar[d] = c

\* int(c) for a digit character
DigitVal(c) == (CHOOSE d \in 1..10 : DigitChar[d] = c) - 1

\* str(n) for a natural number
RECURSIVE Str(_)
Str(n) == IF n < 10 THEN << DigitChar[n + 1] >>
          ELSE Str(n \div 10) \o << DigitChar[(n % 10) + 1] >>

\* s repeated k times ("for appearance in range(n_appearances)")
RECURSIVE Rep(_, _)
Rep(s, k) == IF k <= 0 THEN << >> ELSE s \o Rep(s, k - 1)

\* input[:index] and input[index:] for a 0-based index, negative counted
\* from the end as Python does
PyIndex(s, index) == IF index < 0
                     THEN (IF Len(s) + index < 0 THEN 0 ELSE Len(s) + index)
                     ELSE (IF index > Len(s) THEN Len(s) ELSE index)

Before(s, index) == SubSeq(s, 1, PyIndex(s, index))

From(s, index) == SubSeq(s, PyIndex(s, index) + 1, Len(s))

\* input.rfind(c, 0, lineLength): highest 0-based position below the limit
\* holding c, -1 when there is none
RFind(s, c, limit) ==
  LET hits == { k \in 1..Len(s) : k <= limit /\ s[k] = c }
  IN IF hits = {} THEN -1
     ELSE (CHOOSE k \in hits : \A m \in hits : m <= k) - 1

Max(S) == CHOOSE x \in S : \A y \in S : y <= x

\* input.index('='): 0-based position of the first '='
IndexOfEq(s) == (CHOOSE k \in 1..Len(s) :
                   s[k] = "=" /\ \A m \in 1..(k - 1) : s[m] /= "=") - 1

(***************************************************************************)
(* truncate_line (codeFormat 'F90', no continuationCode)                   *)
(***************************************************************************)
lineLength == 72
maxlines == 30

sContMark == << " ", "&", "\n" >>
sContPrefix == << " ", " ", " ", " ", " ", "&", " ", " ", " ", " ", " ", " ", " " >>

\* one pass of the while loop; t = [input, result, lines, lhs]
truncate_restart(t) ==
  LET index == Max({ RFind(t.input, "+", lineLength), RFind(t.input, "-", lineLength) })
  IN [ input  |-> t.lhs \o << "=" >> \o t.lhs \o From(t.input, index),
       result |-> t.result \o Before(t.input, index) \o << "\n" >>,
       lines  |-> 0,
       lhs    |-> t.lhs ]

\* a pass that loses the operator at which it cuts
truncate_continue_dropsOperator(t) ==
  LET index == Max({ RFind(t.input, "+", lineLength), RFind(t.input, "-", lineLength),
                     RFind(t.input, "*", lineLength), RFind(t.input, "/", lineLength) })
  IN [ input  |-> sContPrefix \o From(t.input, index + 1),
       result |-> t.result \o Before(t.input, index) \o sContMark,
       lines  |-> t.lines + 1,
       lhs    |-> t.lhs ]

truncate_continue(t) ==
  LET index == Max({ RFind(t.input, "+", lineLength), RFind(t.input, "-", lineLength),
                     RFind(t.input, "*", lineLength), RFind(t.input, "/", lineLength) })
  IN [ input  |-> sContPrefix \o From(t.input, index),
       result |-> t.result \o Before(t.input, index) \o sContMark,
       lines  |-> t.lines + 1,
       lhs    |-> t.lhs ]

truncate_step(t) ==
  IF t.lines + 1 = maxlines THEN truncate_restart(t) ELSE truncate_continue(t)

truncate_begin(input) ==
  [ input |-> input, result |-> << >>, lines |-> 0,
    lhs |-> Before(input, IndexOfEq(input)) ]

RECURSIVE truncate_loop(_)
truncate_loop(t) ==
  IF Len(t.input) > lineLength THEN truncate_loop(truncate_step(t))
  ELSE t.result \o t.input

truncate_line(input) == truncate_loop(truncate_begin(input))

(***************************************************************************)
(* multiple, is_H2_formation, electron_eq                                  *)
(***************************************************************************)
multiple(number) == IF number = 1 THEN << >> ELSE Str(number) \o << "*" >>

NonEmptyCount(s) == Cardinality({ k \in 1..Len(s) : s[k] /= sEmpty })

is_H2_formation(reactants, products) ==
  LET nReactants == NonEmptyCount(reactants)
      nProducts == NonEmptyCount(products)
  IN \/ /\ nReactants = 2 /\ nProducts = 1
        /\ reactants[1] = sH /\ reactants[2] = sH /\ products[1] = sH2
     \/ /\ nReactants = 3 /\ nProducts = 2
        /\ reactants[1] = sH /\ reactants[2] = sH /\ reactants[3] = sHash
        /\ products[1] = sH2 /\ products[2] = sHash

\* 'Y(' + str(n) + ')'
YRef(n) == << "Y", "(" >> \o Str(n) \o << ")" >>

\* a rate reference that keeps Python's 0-based index
RateRef_zeroBased(i) == << "R", "A", "T", "E", "(" >> \o Str(i - 1) \o << ")" >>

\* 'RATE(' + str(i) + ')'
RateRef(i) == << "R", "A", "T", "E", "(" >> \o Str(i) \o << ")" >>

LastChar(name) == name[Len(name)]

\* the loop of electron_eq over speciesList[n..]; n is 1-based, so the
\* Fortran index n+1 of the code is n here
RECURSIVE ElecLoop(_, _, _)
ElecLoop(sl, n, elec_eq) ==
  IF n > Len(sl) THEN elec_eq
  ELSE LET e1 == IF LastChar(sl[n]) = "+"
                 THEN (IF Len(elec_eq) > 0 THEN elec_eq \o << "+" >> ELSE elec_eq)
                        \o YRef(n)
                 ELSE elec_eq
           e2 == IF LastChar(sl[n]) = "-"
                 THEN (IF Len(e1) > 0 THEN e1 \o << "-" >> ELSE e1)
                        \o << "+" >> \o YRef(n)
                 ELSE e1
       IN ElecLoop(sl, n + 1, e2)

electron_eq(sl) ==
  LET elec_eq == ElecLoop(sl, 1, << >>)
      lhs == << " ", " ", " ", " ", " ", " " >> \o YRef(Len(sl) + 1) \o << " ", "=", " " >>
  IN IF Len(elec_eq) > 0
     THEN truncate_line(lhs \o elec_eq \o << "\n" >>)
     ELSE truncate_line(lhs \o << "0", "\n" >>)

(***************************************************************************)
(* Reading the generated text back: statements, references, signs.         *)
(***************************************************************************)
HasAt(text, k, sub) ==
  /\ k + Len(sub) - 1 <= Len(text)
  /\ \A m \in 1..Len(sub) : text[k + m - 1] = sub[m]

StartsWith(text, sub) == HasAt(text, 1, sub)

Contains(text, sub) == \E k \in 1..Len(text) : HasAt(text, k, sub)

\* the text with every occurrence of pat taken out (occurrences of pat do
\* not overlap in the texts this is used on)
RemoveAll(text, pat) ==
  LET starts == { m \in 1..Len(text) : HasAt(text, m, pat) }
      outPos == [ m \in starts |-> m - Len(pat) * Cardinality({ x \in starts : x < m }) ]
  IN IF starts = {} THEN text
     ELSE [ i \in 1..(Len(text) - Len(pat) * Cardinality(starts)) |->
              text[i + Len(pat) * Cardinality({ m \in starts : outPos[m] <= i })] ]

\* the text with every continuation (' &', newline, continuation prefix)
\* taken out, so that each logical statement is one line again
StripCont(text) == RemoveAll(text, sContMark \o sContPrefix)

\* the lines of a text, each without its newline
NewLines(text) == { k \in 1..Len(text) : text[k] = "\n" }

\* the i-th smallest member of a set of positions (0 for i = 0)
NthOf(S, i) == IF i = 0 THEN 0
               ELSE CHOOSE k \in S : Cardinality({ j \in S : j <= k }) = i

SplitLines(text) ==
  LET nl == NewLines(text)
      n == Cardinality(nl)
      whole == [ i \in 1..n |-> SubSeq(text, NthOf(nl, i - 1) + 1, NthOf(nl, i) - 1) ]
  IN IF NthOf(nl, n) = Len(text) THEN whole
     ELSE Append(whole, SubSeq(text, NthOf(nl, n) + 1, Len(text)))

Statements(text) == SplitLines(StripCont(text))

\* the number written at position k of the text (0 when there is no digit)
RECURSIVE ReadNum(_, _, _)
ReadNum(text, k, acc) ==
  IF k <= Len(text) /\ IsDigit(text[k])
  THEN ReadNum(text, k + 1, 10 * acc + DigitVal(text[k]))
  ELSE acc

\* the indices n of all references 'Y(n)' in a text; 'YDOT(' is no such
\* reference since its 'Y' is not followed by '('
YIndices(text) ==
  { ReadNum(text, k + 2, 0) : k \in { m \in 1..Len(text) : HasAt(text, m, << "Y", "(" >>) } }

RateIndices(text) ==
  { ReadNum(text, k + 5, 0) : k \in { m \in 1..Len(text) : HasAt(text, m, << "R", "A", "T", "E", "(" >>) } }

pIndent == << " ", " ", " ", " ", " ", " " >>
pElecHead(N) == pIndent \o YRef(N) \o << " ", "=", " " >>
pLossHead == pIndent \o << "L", "O", "S", "S", " ", "=", " " >>
pProdHead == pIndent \o << "P", "R", "O", "D", " ", "=", " " >>
pYdotHead(n) == pIndent \o << "Y", "D", "O", "T", "(" >> \o Str(n) \o << ")", " ", "=", " " >>

StatementKind(line) ==
  IF line = << >> THEN "blank"
  ELSE IF StartsWith(line, pLossHead) THEN "loss"
  ELSE IF StartsWith(line, pProdHead) THEN "prod"
  ELSE IF StartsWith(line, pIndent \o << "Y", "D", "O", "T", "(" >>) THEN "ydot"
  ELSE IF StartsWith(line, pIndent \o << "Y", "(" >>) THEN "elec"
  ELSE "other"

\* the right-hand side of a statement: what follows the first ' = '
RhsOf(line) == SubSeq(line, IndexOfEq(line) + 3, Len(line))

\* the signed terms of an electron-balance right-hand side: a term Y(n)
\* carries the product of the signs written since the previous term
RECURSIVE SignedTerms(_, _, _)
SignedTerms(rhs, k, sign) ==
  IF k > Len(rhs) THEN << >>
  ELSE IF rhs[k] = "+" THEN SignedTerms(rhs, k + 1, sign)
  ELSE IF rhs[k] = "-" THEN SignedTerms(rhs, k + 1, 0 - sign)
  ELSE IF HasAt(rhs, k, << "Y", "(" >>)
       THEN << << sign, ReadNum(rhs, k + 2, 0) >> >> \o SignedTerms(rhs, k + 2, 1)
  ELSE SignedTerms(rhs, k + 1, sign)

\* the terms the balance must have: one per charged species, in list order
RECURSIVE ChargedTerms(_, _)
ChargedTerms(sl, n) ==
  IF n > Len(sl) THEN << >>
  ELSE (IF LastChar(sl[n]) = "+" THEN << << 1, n >> >>
        ELSE IF LastChar(sl[n]) = "-" THEN << << -1, n >> >>
        ELSE << >>) \o ChargedTerms(sl, n + 1)

(***************************************************************************)
(* write_odes_f90                                                          *)
(***************************************************************************)
\* The orders in which "for reactant in set(reaction.reactants)" may visit
\* the distinct reactants: the set is visited in the order in which a
\* permutation of the three slots first meets each name.
SlotOrders == { p \in [1..3 -> 1..3] : \A a, b \in 1..3 : a /= b => p[a] /= p[b] }

RECURSIVE DistinctFrom(_, _, _, _)
DistinctFrom(reactants, order, k, acc) ==
  IF k > 3 THEN acc
  ELSE LET x == reactants[order[k]]
       IN DistinctFrom(reactants, order, k + 1,
                       IF x \in Range(acc) THEN acc ELSE Append(acc, x))

SetOrder(reactants, order) == DistinctFrom(reactants, order, 1, << >>)

\* "for j,possibleReactants in enumerate(speciesList): if reactant ==
\* possibleReactants.name: for appearance in range(n_appearances)"
RECURSIVE SpeciesFactors(_, _, _, _)
SpeciesFactors(sl, j, reactant, n_appearances) ==
  IF j > Len(sl) THEN [ str |-> << >>, bodies |-> 0 ]
  ELSE LET rest == SpeciesFactors(sl, j + 1, reactant, n_appearances)
       IN IF sl[j] = reactant /\ n_appearances > 0
          THEN [ str |-> Rep(<< "*" >> \o YRef(j), n_appearances) \o rest.str,
                 bodies |-> n_appearances + rest.bodies ]
          ELSE rest

\* the body of "for reactant in set(reaction.reactants)" in the loss part
\* (self = TRUE) and in the production part (self = FALSE)
RECURSIVE ReactantLoop(_, _, _, _, _, _)
ReactantLoop(todo, reactants, name, sl, self, acc) ==
  IF todo = << >> THEN acc
  ELSE LET reactant == Head(todo)
           isSelf == self /\ reactant = name
           n_appearances == Count(reactants, reactant) - (IF isSelf THEN 1 ELSE 0)
           tb0 == acc.twoBody + (IF isSelf THEN 1 ELSE 0)
           f == IF reactant = sElectron
                THEN [ str |-> Rep(<< "*" >> \o YRef(Len(sl) + 1), n_appearances),
                       bodies |-> IF n_appearances > 0 THEN n_appearances ELSE 0 ]
                ELSE SpeciesFactors(sl, 1, reactant, n_appearances)
       IN ReactantLoop(Tail(todo), reactants, name, sl, self,
                       [ str |-> acc.str \o f.str, twoBody |-> tb0 + f.bodies ])

\* a density test that looks at the body count only
DensityScaled_bodiesOnly(twoBody, reactants) == twoBody > 1

DensityScaled(twoBody, reactants) ==
  twoBody > 1 \/ Count(reactants, sFREEZE) > 0 \/ Count(reactants, sDESOH2) > 0

\* speciesList.index(next(x for x in speciesList if x.name=='H')), 1-based;
\* 0 stands for the StopIteration raised when there is no 'H'
H_index(sl) == IF \E k \in 1..Len(sl) : sl[k] = sH
               THEN CHOOSE k \in 1..Len(sl) : sl[k] = sH /\ \A m \in 1..(k - 1) : sl[m] /= sH
               ELSE 0

\* one pass of "for i,reaction in enumerate(reactionList)" for the species
\* called name; st = [loss, form, err]
ReactionPass(st, name, reaction, i, sl, order) ==
  LET inReactants == name \in Range(reaction.reactants)
      inProducts == name \in Range(reaction.products)
      h2 == is_H2_formation(reaction.reactants, reaction.products)
      todo == SetOrder(reaction.reactants, order)
      l == ReactantLoop(todo, reaction.reactants, name, sl, TRUE,
                        [ str |-> << "-" >> \o multiple(Count(reaction.reactants, name))
                                    \o RateRef(i),
                          twoBody |-> 0 ])
      lossTerm == l.str \o (IF DensityScaled(l.twoBody, reaction.reactants)
                            THEN << "*", "D" >> ELSE << >>)
      twoBody1 == IF inReactants THEN l.twoBody ELSE 0
      f == ReactantLoop(todo, reaction.reactants, name, sl, FALSE,
                        [ str |-> << "+" >> \o multiple(Count(reaction.products, name))
                                    \o RateRef(i),
                          twoBody |-> twoBody1 ])
      formTerm == f.str \o (IF DensityScaled(f.twoBody, reaction.reactants)
                            THEN << "*", "D" >> ELSE << >>)
  IN IF inReactants /\ h2
     THEN [ st EXCEPT !.loss = @ \o << "-", "2", "*" >> \o RateRef(i) \o << "*", "D" >> ]
     ELSE LET st1 == IF inReactants THEN [ st EXCEPT !.loss = @ \o lossTerm ] ELSE st
          IN IF ~ inProducts THEN st1
             ELSE IF h2
                  THEN IF H_index(sl) = 0 THEN [ st1 EXCEPT !.err = TRUE ]
                       ELSE [ st1 EXCEPT !.form = @ \o << "+" >> \o RateRef(i) \o << "*" >>
                                                    \o YRef(H_index(sl)) \o << "*", "D" >> ]
                  ELSE [ st1 EXCEPT !.form = @ \o formTerm ]

RECURSIVE ReactionLoop(_, _, _, _, _, _)
ReactionLoop(st, name, rl, i, sl, order) ==
  IF i > Len(rl) \/ st.err THEN st
  ELSE ReactionLoop(ReactionPass(st, name, rl[i], i, sl, order), name, rl, i + 1, sl, order)

\* what is written for species n (1-based): LOSS, PROD and YDOT statements
SpeciesBlock(st, n) ==
  LET lossString == IF st.loss /= << >>
                    THEN truncate_line(<< " ", " ", " ", " ", " ", " ", "L", "O", "S", "S", " ", "=", " " >> \o st.loss \o << "\n" >>)
                    ELSE << >>
      formString == IF st.form /= << >>
                    THEN truncate_line(<< " ", " ", " ", " ", " ", " ", "P", "R", "O", "D", " ", "=", " " >> \o st.form \o << "\n" >>)
                    ELSE << >>
      ydotString == << " ", " ", " ", " ", " ", " ", "Y", "D", "O", "T", "(" >> \o Str(n) \o << ")", " ", "=", " " >>
                    \o (IF formString /= << >>
                        THEN << "P", "R", "O", "D" >> \o (IF lossString /= << >> THEN << "+" >> ELSE << >>)
                        ELSE << >>)
                    \o (IF lossString /= << >> THEN YRef(n) \o << "*", "L", "O", "S", "S" >> ELSE << >>)
                    \o << "\n" >>
  IN lossString \o formString \o truncate_line(ydotString)

\* the loop over the species; w = [text, err]
RECURSIVE SpeciesLoop(_, _, _, _, _)
SpeciesLoop(w, sl, rl, n, order) ==
  IF n > Len(sl) \/ w.err THEN w
  ELSE LET st == ReactionLoop([ loss |-> << >>, form |-> << >>, err |-> FALSE ],
                              sl[n], rl, 1, sl, order)
       IN IF st.err THEN [ w EXCEPT !.err = TRUE ]
          ELSE SpeciesLoop([ w EXCEPT !.text = @ \o SpeciesBlock(st, n) ],
                           sl, rl, n + 1, order)

write_odes_f90(sl, rl, order) ==
  SpeciesLoop([ text |-> electron_eq(sl) \o << "\n" >>, err |-> FALSE ], sl, rl, 1, order)

(***************************************************************************)
(* The Makerates run: read both files, filter the species, check the       *)
(* reactions.                                                              *)
(***************************************************************************)
SpeciesNames == { sH, sH2, sCO }

\* the fields of an input row that hold numbers
sNum == << "5" >>

\* a species row of seven fields, and the species file made of a header row
\* and one row per name
SpeciesRow(name) == << name, sNum, sNum, sNum, sNum, sNum, sNum >>

SpeciesFileOf(names) ==
  << SpeciesRow(sNAME) >> \o [ k \in 1..Len(names) |-> SpeciesRow(names[k]) ]

\* alpha, beta, gamma, templow, temphigh of a reaction row
RateFields == << sNum, sNum, sNum, sNum, sNum >>

RowsUCL ==
  { << a, b, sEmpty, d, e, sEmpty, sEmpty >> \o RateFields :
      a \in { sH, sCO }, b \in { sH, sCO }, d \in { sH2, sPHOTON }, e \in { sEmpty } }

\* UMIST rows: number, type, two reactants, four products, a count, the
\* rate fields
RowsUMIST ==
  { << sNum, << "N", "N" >>, a, b, d, e, sEmpty, sEmpty, sNum >> \o RateFields :
      a \in { sH, sCO }, b \in { sH, sCO }, d \in { sH2, sPHOTON }, e \in { sEmpty } }

Init ==
  /\ pc = "start"
  /\ speciesFile \in { SpeciesFileOf(s) : s \in SeqsUpTo(SpeciesNames, MaxSpecies) }
  /\ ftype \in { "UCL", "UMIST" }
  /\ reactionFile \in SeqsUpTo(IF ftype = "UCL" THEN RowsUCL ELSE RowsUMIST, MaxRows)
  /\ speciesList = << >>
  /\ reactionList = << >>
  /\ lostSpecies = << >>
  /\ removedDup = << >>
  /\ dupPairs = << >>
  /\ output = << >>
  /\ FCIdle
  /\ TLIdle

ReadSpeciesFile ==
  /\ pc = "start"
  /\ LET r == read_species_file(speciesFile)
     IN IF r.err
        THEN pc' = "IndexError" /\ UNCHANGED speciesList
        ELSE pc' = "species_read" /\ speciesList' = r.list
  /\ UNCHANGED << speciesFile, reactionFile, ftype, reactionList, lostSpecies,
                  removedDup, dupPairs, output >>
  /\ UNCHANGED << fcVars, tlVars >>

ReadReactionFile ==
  /\ pc = "species_read"
  /\ LET r == read_reaction_file(reactionFile, speciesList, ftype)
     IN IF r.err
        THEN pc' = "IndexError" /\ UNCHANGED reactionList
        ELSE pc' = "reactions_read" /\ reactionList' = r.list
  /\ UNCHANGED << speciesFile, reactionFile, ftype, speciesList, lostSpecies,
                  removedDup, dupPairs, output >>
  /\ UNCHANGED << fcVars, tlVars >>

FilterSpecies ==
  /\ pc = "reactions_read"
  /\ LET f == filter_species(speciesList, reactionList)
     IN /\ speciesList' = f.list
        /\ lostSpecies' = f.lost
        /\ removedDup' = f.removed
  /\ pc' = "filtered"
  /\ UNCHANGED << speciesFile, reactionFile, ftype, reactionList, dupPairs, output >>
  /\ UNCHANGED << fcVars, tlVars >>

ReactionCheck ==
  /\ pc = "filtered"
  /\ dupPairs' = reaction_check(reactionList)
  /\ pc' = "checked"
  /\ UNCHANGED << speciesFile, reactionFile, ftype, speciesList, reactionList,
                  lostSpecies, removedDup, output >>
  /\ UNCHANGED << fcVars, tlVars >>

Next == ReadSpeciesFile \/ ReadReactionFile \/ FilterSpecies \/ ReactionCheck

Spec == Init /\ [][Next]_vars

(***************************************************************************)
(* The generation run: read both files, filter the species,                *)
(* write the ODE file.                                                     *)
(***************************************************************************)
sHplus == << "H", "+" >>

OdeNames == { sH, sH2, sHplus, sElectron }

OdeRows ==
  { << sH, sH, sEmpty, sH2, sEmpty, sEmpty, sEmpty >> \o RateFields,
    << sH, sH, sHash, sH2, sHash, sEmpty, sEmpty >> \o RateFields,
    << sH, sH, sEmpty, sH2, sH, sEmpty, sEmpty >> \o RateFields,
    << sH2, sPHOTON, sEmpty, sH, sH, sEmpty, sEmpty >> \o RateFields,
    << sHplus, sElectron, sEmpty, sH, sPHOTON, sEmpty, sEmpty >> \o RateFields }

\* species files of the generation run: every name on one row only
DistinctSeqsUpTo(S, n) ==
  { s \in SeqsUpTo(S, n) : \A a, b \in 1..Len(s) : a /= b => s[a] /= s[b] }

InitOde ==
  /\ pc = "start"
  /\ speciesFile \in { SpeciesFileOf(s) : s \in DistinctSeqsUpTo(OdeNames, MaxOdeSpecies) }
  /\ ftype = "UCL"
  /\ reactionFile \in SeqsUpTo(OdeRows, MaxOdeRows)
  /\ speciesList = << >>
  /\ reactionList = << >>
  /\ lostSpecies = << >>
  /\ removedDup = << >>
  /\ dupPairs = << >>
  /\ output = << >>
  /\ FCIdle
  /\ TLIdle

WriteOdes ==
  /\ pc = "filtered"
  /\ \E order \in SlotOrders :
       LET w == write_odes_f90(speciesList, reactionList, order)
       IN /\ output' = w.text
          /\ pc' = IF w.err THEN "error" ELSE "written"
  /\ UNCHANGED << speciesFile, reactionFile, ftype, speciesList, reactionList,
                  lostSpecies, removedDup, dupPairs >>
  /\ UNCHANGED << fcVars, tlVars >>

NextOde == ReadSpeciesFile \/ ReadReactionFile \/ FilterSpecies \/ WriteOdes

SpecOde == InitOde /\ [][NextOde]_vars

(***************************************************************************)
(* The loading run on files that also hold rows with too few or too many   *)
(* fields, and blank lines.                                                *)
(***************************************************************************)
MaxLoadRows == 2

LoadSpeciesRows ==
  { SpeciesRow(sH), SpeciesRow(sH2),
    << sH, sNum >>,
    SpeciesRow(sH) \o << sNum >>,
    << >> }

LoadParticipants ==
  { << sH, sH, sEmpty, sH2, sEmpty, sEmpty, sEmpty >>,
    << sCO, sH, sEmpty, sH2, sEmpty, sEmpty, sEmpty >> }

\* a UCL row cut after four fields, whole, and with one field too many
LoadRowsUCL ==
  { << >> } \cup
  UNION { { SubSeq(p, 1, 4), p \o RateFields, p \o RateFields \o << sNum >> } :
          p \in LoadParticipants }

\* a UMIST row cut after five and after ten fields, whole, and followed by
\* three more fields
LoadRowsUMIST ==
  { << >> } \cup
  UNION { LET row == << sNum, << "N", "N" >>, p[1], p[2], p[4], p[5], p[6], p[7], sNum >>
                       \o RateFields
          IN { SubSeq(row, 1, 5), SubSeq(row, 1, 10), row, row \o << sNum, sNum, sNum >> } :
          p \in LoadParticipants }

InitLoad ==
  /\ pc = "start"
  /\ speciesFile \in { << SpeciesRow(sNAME) >> \o f : f \in SeqsUpTo(LoadSpeciesRows, MaxLoadRows) }
  /\ ftype \in { "UCL", "UMIST" }
  /\ reactionFile \in SeqsUpTo(IF ftype = "UCL" THEN LoadRowsUCL ELSE LoadRowsUMIST, MaxLoadRows)
  /\ speciesList = << >>
  /\ reactionList = << >>
  /\ lostSpecies = << >>
  /\ removedDup = << >>
  /\ dupPairs = << >>
  /\ output = << >>
  /\ FCIdle
  /\ TLIdle

NextLoad == ReadSpeciesFile \/ ReadReactionFile

SpecLoad == InitLoad /\ [][NextLoad]_vars

(***************************************************************************)
(* The generation run on reactions with process tokens, electrons,         *)
(* repeated reactants and a species on both sides.                         *)
(***************************************************************************)
MaxTermSpecies == 3
MaxTermRows == 2

sGrH == << "#", "H" >>

TermNames == { sH, sH2, sHplus, sGrH }

TermRows ==
  { << sH, sH, sEmpty, sH2, sPHOTON, sEmpty, sEmpty >> \o RateFields,
    << sH, sH, sH, sH2, sH, sEmpty, sEmpty >> \o RateFields,
    << sH2, sPHOTON, sEmpty, sH2, sH, sEmpty, sEmpty >> \o RateFields,
    << sH2, sPHOTON, sEmpty, sH, sH, sEmpty, sEmpty >> \o RateFields,
    << sHplus, sElectron, sEmpty, sH, sPHOTON, sEmpty, sEmpty >> \o RateFields,
    << sH, sFREEZE, sEmpty, sGrH, sEmpty, sEmpty, sEmpty >> \o RateFields,
    << sGrH, sDESOH2, sEmpty, sH, sEmpty, sEmpty, sEmpty >> \o RateFields }

InitTerm ==
  /\ pc = "start"
  /\ speciesFile \in { SpeciesFileOf(f) : f \in DistinctSeqsUpTo(TermNames, MaxTermSpecies) }
  /\ ftype = "UCL"
  /\ reactionFile \in SeqsUpTo(TermRows, MaxTermRows)
  /\ speciesList = << >>
  /\ reactionList = << >>
  /\ lostSpecies = << >>
  /\ removedDup = << >>
  /\ dupPairs = << >>
  /\ output = << >>
  /\ FCIdle
  /\ TLIdle

NextTerm == ReadSpeciesFile \/ ReadReactionFile \/ FilterSpecies \/ WriteOdes

SpecTerm == InitTerm /\ [][NextTerm]_vars

(***************************************************************************)
(* find_constituents, one action per pass of its while loop.               *)
(***************************************************************************)
elementList ==
  { << "H" >>, << "D" >>, << "H", "E" >>, << "C" >>, << "N" >>, << "O" >>, << "F" >>, << "P" >>, << "S" >>, << "C", "L" >>, << "L", "I" >>, << "N", "A" >>, << "M", "G" >>, << "S", "I" >>, << "P", "A", "H" >> }

symbols == { "#", "+", "-" }

\* is_number on one character: float() accepts exactly the digits
is_number(c) == IsDigit(c)

\* speciesName[i:j] for 0-based i <= j
Slice(name, i, j) == SubSeq(name, i + 1, IF j > Len(name) THEN Len(name) ELSE j)

\* the value of j after the element tests of one pass (j is left as it
\* was when no test succeeds); -1 stands for "j not assigned yet"
ElementEnd(name, i, j) ==
  IF i + 1 < Len(name)
  THEN IF Slice(name, i, i + 2) \in elementList THEN i + 2
       ELSE IF Slice(name, i, i + 1) \in elementList THEN i + 1
       ELSE j
  ELSE IF Slice(name, i, i + 1) \in elementList THEN i + 1
       ELSE j

\* atoms.append(speciesName[i:j]), then once more for k in range(1, digit)
AtomsFound(name, i, j) ==
  IF j < Len(name) /\ is_number(name[j + 1])
  THEN Rep(<< Slice(name, i, j) >>, IF DigitVal(name[j + 1]) > 1 THEN DigitVal(name[j + 1]) ELSE 1)
  ELSE << Slice(name, i, j) >>

\* the value of i after an element was found
AfterElement(name, j) ==
  IF j < Len(name) /\ is_number(name[j + 1]) THEN j + 1 ELSE j

(***************************************************************************)
(* The constituent analysis run.  A name is composed of parts: an element  *)
(* symbol, optionally followed by a digit, or a structural symbol, or a    *)
(* segment that is in no table.                                            *)
(***************************************************************************)
MaxParts == 3
MaxDiag == 2

GoodParts == { << "H" >>, << "H", "2" >>, << "C" >>, << "C", "1" >>, << "O" >>, << "H", "E" >>, << "P", "A", "H" >>, << "#" >>, << "+" >> }

BadParts == { << "8" >>, << "X" >> }

PartSet == GoodParts \cup BadParts

RECURSIVE Flatten(_)
Flatten(parts) == IF parts = << >> THEN << >> ELSE Head(parts) \o Flatten(Tail(parts))

\* names of at most n parts
NamesUpTo(n) == SeqsUpTo(PartSet, n) \ { << >> }

\* lists of one or two names with at most MaxParts parts in all
PartLists ==
  { << a >> : a \in NamesUpTo(MaxParts) }
    \cup UNION { { << a, b >> : b \in NamesUpTo(MaxParts - Len(a)) } :
                  a \in NamesUpTo(MaxParts - 1) }

InitFC ==
  /\ pc = "fc_scan"
  /\ nameParts \in PartLists
  /\ speciesList = [ k \in 1..Len(nameParts) |-> Flatten(nameParts[k]) ]
  /\ speciesFile = << >>
  /\ reactionFile = << >>
  /\ ftype = "UCL"
  /\ reactionList = << >>
  /\ lostSpecies = << >>
  /\ removedDup = << >>
  /\ dupPairs = << >>
  /\ output = << >>
  /\ fcPos = 1
  /\ fcI = 0
  /\ fcJ = -1
  /\ atoms = << >>
  /\ atomsOut = << >>
  /\ n_atoms = << >>
  /\ diagnostics = 0
  /\ TLIdle

speciesName == speciesList[fcPos]

Scanning == pc = "fc_scan" /\ fcI < Len(speciesName)

\* "else: i+=1": the character is '#', '+' or '-'
FCSkipSymbol ==
  /\ Scanning
  /\ speciesName[fcI + 1] \in symbols
  /\ fcI' = fcI + 1
  /\ UNCHANGED << pc, fcPos, fcJ, atoms, atomsOut, n_atoms, diagnostics, nameParts >>
  /\ UNCHANGED << netVars, tlVars >>

\* "if j>i" with j never assigned: the run ends with an UnboundLocalError
FCUnbound ==
  /\ Scanning
  /\ speciesName[fcI + 1] \notin symbols
  /\ ElementEnd(speciesName, fcI, fcJ) = -1
  /\ pc' = "fc_error"
  /\ UNCHANGED << fcPos, fcI, fcJ, atoms, atomsOut, n_atoms, diagnostics, nameParts >>
  /\ UNCHANGED << netVars, tlVars >>

\* "if j>i": an element (or what the stale j delimits) is added to atoms
FCElement ==
  /\ Scanning
  /\ speciesName[fcI + 1] \notin symbols
  /\ LET j == ElementEnd(speciesName, fcI, fcJ)
     IN /\ j > fcI
        /\ fcJ' = j
        /\ atoms' = atoms \o AtomsFound(speciesName, fcI, j)
        /\ fcI' = AfterElement(speciesName, j)
  /\ UNCHANGED << pc, fcPos, atomsOut, n_atoms, diagnostics, nameParts >>
  /\ UNCHANGED << netVars, tlVars >>

\* "else: print ... contains elements not in element list": i is not moved
FCDiagnostic ==
  /\ Scanning
  /\ speciesName[fcI + 1] \notin symbols
  /\ LET j == ElementEnd(speciesName, fcI, fcJ)
     IN /\ j /= -1
        /\ j <= fcI
        /\ fcJ' = j
  /\ diagnostics' = IF diagnostics < MaxDiag THEN diagnostics + 1 ELSE diagnostics
  /\ UNCHANGED << pc, fcPos, fcI, atoms, atomsOut, n_atoms, nameParts >>
  /\ UNCHANGED << netVars, tlVars >>

\* after the while loop: n_atoms is set and the mass is summed, where
\* elementList.index(atom) raises ValueError for an atom not in the list;
\* then the for loop goes to the next species, keeping j
FCFinishSpecies ==
  /\ pc = "fc_scan"
  /\ fcI >= Len(speciesName)
  /\ n_atoms' = Append(n_atoms, Len(atoms))
  /\ atomsOut' = Append(atomsOut, atoms)
  /\ IF \E a \in 1..Len(atoms) : atoms[a] \notin elementList
     THEN /\ pc' = "fc_error"
          /\ UNCHANGED << fcPos, fcI, atoms >>
     ELSE IF fcPos = Len(speciesList)
          THEN /\ pc' = "fc_done"
               /\ UNCHANGED << fcPos, fcI, atoms >>
          ELSE /\ pc' = "fc_scan"
               /\ fcPos' = fcPos + 1
               /\ fcI' = 0
               /\ atoms' = << >>
  /\ UNCHANGED << fcJ, diagnostics, nameParts >>
  /\ UNCHANGED << netVars, tlVars >>

NextFC == FCSkipSymbol \/ FCUnbound \/ FCElement \/ FCDiagnostic \/ FCFinishSpecies

SpecFC == InitFC /\ [][NextFC]_vars

\* the loop of find_constituents is sequential code: it always takes its
\* next step
SpecFCFair == SpecFC /\ WF_vars(NextFC)

(***************************************************************************)
(* find_constituents as one call, for the runs that go on to the writers.  *)
(***************************************************************************)
\* the while loop over one name, entered with the j left by the previous
\* species; end is "done", "error" (j read before it was assigned) or
\* "loop" (the diagnostic branch, which never moves i)
RECURSIVE ScanName(_, _, _, _)
ScanName(name, i, j, found) ==
  IF i >= Len(name) THEN [ atoms |-> found, j |-> j, end |-> "done" ]
  ELSE IF name[i + 1] \in symbols THEN ScanName(name, i + 1, j, found)
  ELSE LET j1 == ElementEnd(name, i, j)
       IN IF j1 = -1 THEN [ atoms |-> found, j |-> j1, end |-> "error" ]
          ELSE IF j1 > i
               THEN ScanName(name, AfterElement(name, j1), j1,
                             found \o AtomsFound(name, i, j1))
               ELSE [ atoms |-> found, j |-> j1, end |-> "loop" ]

\* the for loop over the species; counts holds species.n_atoms
RECURSIVE ScanSpecies(_, _, _, _)
ScanSpecies(sl, k, j, counts) ==
  IF k > Len(sl) THEN [ n_atoms |-> counts, end |-> "done" ]
  ELSE LET r == ScanName(sl[k], 0, j, << >>)
       IN IF r.end /= "done" THEN [ n_atoms |-> counts, end |-> r.end ]
          ELSE IF \E a \in 1..Len(r.atoms) : r.atoms[a] \notin elementList
               THEN [ n_atoms |-> Append(counts, Len(r.atoms)), end |-> "error" ]
               ELSE ScanSpecies(sl, k + 1, r.j, Append(counts, Len(r.atoms)))

find_constituents(sl) == ScanSpecies(sl, 1, -1, << >>)

(***************************************************************************)
(* The writers of the species table, the reaction table and the            *)
(* evaporation lists.                                                      *)
(***************************************************************************)
\* writer.writerow(fields): the fields separated by ',' and a line end; no
\* field of the rows written here holds a character that is quoted
RECURSIVE JoinFields(_)
JoinFields(fields) ==
  IF fields = << >> THEN << >>
  ELSE IF Len(fields) = 1 THEN fields[1]
  ELSE fields[1] \o << "," >> \o JoinFields(Tail(fields))

writerow(fields) == JoinFields(fields) \o << "\n" >>

\* a field of a Species other than its name: the field of the row the
\* Species was built from (k is 1-based)
SpeciesField(file, name, k) ==
  LET rows == { r \in 1..Len(file) : Len(file[r]) >= 7 /\ file[r][1] = name }
  IN file[CHOOSE r \in rows : \A q \in rows : r <= q][k]

RECURSIVE SpeciesTable(_, _, _, _)
SpeciesTable(file, sl, counts, k) ==
  IF k > Len(sl) THEN << >>
  ELSE writerow(<< sl[k], SpeciesField(file, sl[k], 2), Str(counts[k]) >>)
         \o SpeciesTable(file, sl, counts, k + 1)

write_species(file, sl, counts) ==
  Str(Len(sl) + 1) \o << "\n" >> \o SpeciesTable(file, sl, counts, 1)

\* the value assigned by "reaction.beta=1", as the csv writer prints it
sOne == << "1" >>

\* 'FREEZE' in reaction.reactants and reaction.reactants[0][-1]=='+'; the
\* index [-1] raises IndexError on an empty first reactant
IonFreezeRaises(reaction) ==
  sFREEZE \in Range(reaction.reactants) /\ reaction.reactants[1] = sEmpty

IonFreeze(reaction) ==
  sFREEZE \in Range(reaction.reactants) /\ LastChar(reaction.reactants[1]) = "+"

ReactionFields(reaction) ==
  reaction.reactants \o reaction.products
    \o << reaction.alpha, reaction.beta, reaction.gamma, reaction.templow, reaction.temphigh >>

\* the loop of write_reactions; w = [list, text, err], list being the
\* reaction list with the assignments made so far
RECURSIVE ReactionTable(_, _)
ReactionTable(w, k) ==
  IF k > Len(w.list) THEN w
  ELSE LET reaction == w.list[k]
       IN IF IonFreezeRaises(reaction) THEN [ w EXCEPT !.err = TRUE ]
          ELSE LET r1 == IF IonFreeze(reaction)
                         THEN [ reaction EXCEPT !.beta = sOne ] ELSE reaction
               IN ReactionTable([ list |-> [ w.list EXCEPT ![k] = r1 ],
                                  text |-> w.text \o writerow(ReactionFields(r1)),
                                  err  |-> FALSE ], k + 1)

write_reactions(rl) ==
  ReactionTable([ list |-> rl, text |-> Str(Len(rl)) \o << "\n" >>, err |-> FALSE ], 1)

(***************************************************************************)
(* evap_lists                                                              *)
(***************************************************************************)
LowerLetters == << "a", "b", "c", "d", "e", "f", "g", "h", "i", "j", "k", "l", "m",
                   "n", "o", "p", "q", "r", "s", "t", "u", "v", "w", "x", "y", "z" >>
UpperLetters == << "A", "B", "C", "D", "E", "F", "G", "H", "I", "J", "K", "L", "M",
                   "N", "O", "P", "Q", "R", "S", "T", "U", "V", "W", "X", "Y", "Z" >>

\* str.upper() and str.lower()
Upper(str) ==
  [ k \in 1..Len(str) |->
      IF \E a \in 1..26 : LowerLetters[a] = str[k]
      THEN UpperLetters[CHOOSE a \in 1..26 : LowerLetters[a] = str[k]] ELSE str[k] ]

Lower(str) ==
  [ k \in 1..Len(str) |->
      IF \E a \in 1..26 : UpperLetters[a] = str[k]
      THEN LowerLetters[CHOOSE a \in 1..26 : UpperLetters[a] = str[k]] ELSE str[k] ]

\* speciesList.index(next(x for x in speciesList if x.name==name)), 1-based;
\* 0 stands for the StopIteration raised when no species has the name
IndexOfName(sl, name) ==
  IF \E k \in 1..Len(sl) : sl[k] = name
  THEN CHOOSE k \in 1..Len(sl) : sl[k] = name /\ \A m \in 1..(k - 1) : sl[m] /= name
  ELSE 0

\* the loop over the species; answer[i] is what the operator types when
\* asked about species i; e = [grain, mgrain, solid, mono, volc, bind,
\* enthalpy, end], end being "done", "exit" (the operator typed x),
\* "StopIteration" (the name typed is no species) or "IndexError" (an
\* empty species name)
RECURSIVE EvapLoop(_, _, _, _, _)
EvapLoop(file, sl, answer, i, e) ==
  IF i > Len(sl) THEN e
  ELSE IF sl[i] = sEmpty THEN [ e EXCEPT !.end = "IndexError" ]
  ELSE IF sl[i][1] /= "#" THEN EvapLoop(file, sl, answer, i + 1, e)
  ELSE LET gas == IndexOfName(sl, Tail(sl[i]))
           typed == IndexOfName(sl, Upper(answer[i]))
           j == IF gas /= 0 THEN gas ELSE typed
       IN IF gas = 0 /\ Lower(answer[i]) = << "x" >> THEN [ e EXCEPT !.end = "exit" ]
          ELSE IF j = 0 THEN [ e EXCEPT !.end = "StopIteration" ]
          ELSE EvapLoop(file, sl, answer, i + 1,
                 [ grain    |-> Append(e.grain, Str(j)),
                   mgrain   |-> Append(e.mgrain, Str(i)),
                   solid    |-> Append(e.solid, SpeciesField(file, sl[i], 4)),
                   mono     |-> Append(e.mono, SpeciesField(file, sl[i], 5)),
                   volc     |-> Append(e.volc, SpeciesField(file, sl[i], 6)),
                   bind     |-> Append(e.bind, SpeciesField(file, sl[i], 3)),
                   enthalpy |-> Append(e.enthalpy, SpeciesField(file, sl[i], 7)),
                   end      |-> "done" ])

\* the result is [text, end]; nothing is written unless the loop ends
evap_lists(file, sl, answer) ==
  LET e == EvapLoop(file, sl, answer, 1,
             [ grain |-> << >>, mgrain |-> << >>, solid |-> << >>, mono |-> << >>,
               volc |-> << >>, bind |-> << >>, enthalpy |-> << >>, end |-> "done" ])
  IN [ text |-> IF e.end /= "done" THEN << >>
                ELSE Str(Len(e.grain)) \o << "\n" >> \o writerow(e.grain)
                       \o writerow(e.mgrain) \o writerow(e.solid) \o writerow(e.mono)
                       \o writerow(e.volc) \o writerow(e.bind) \o writerow(e.enthalpy),
       end |-> e.end ]

(***************************************************************************)
(* The writing run: read both files, filter the species, then one of the   *)
(* writers; write_species follows find_constituents, which gives the       *)
(* species their n_atoms.                                                  *)
(***************************************************************************)
MaxWriteSpecies == 3
MaxWriteRows == 2

WriteNames == { sH, sHplus, sGrH }

WriteRows ==
  { << sHplus, sFREEZE, sEmpty, sGrH, sEmpty, sEmpty, sEmpty >> \o RateFields,
    << sH, sFREEZE, sEmpty, sGrH, sEmpty, sEmpty, sEmpty >> \o RateFields,
    << sGrH, sDESOH2, sEmpty, sH, sEmpty, sEmpty, sEmpty >> \o RateFields }

\* what the operator may type when evap_lists asks
Answers == { << "x" >>, << "h" >>, << "H", "+" >>, << "Q" >> }

InitWrite ==
  /\ pc = "start"
  /\ speciesFile \in { SpeciesFileOf(f) : f \in DistinctSeqsUpTo(WriteNames, MaxWriteSpecies) }
  /\ ftype = "UCL"
  /\ reactionFile \in SeqsUpTo(WriteRows, MaxWriteRows)
  /\ speciesList = << >>
  /\ reactionList = << >>
  /\ lostSpecies = << >>
  /\ removedDup = << >>
  /\ dupPairs = << >>
  /\ output = << >>
  /\ FCIdle
  /\ TLIdle

FindConstituents ==
  /\ pc = "filtered"
  /\ LET r == find_constituents(speciesList)
     IN /\ n_atoms' = r.n_atoms
        /\ pc' = IF r.end = "done" THEN "analysed"
                 ELSE IF r.end = "error" THEN "fc_error" ELSE "fc_loop"
  /\ UNCHANGED << nameParts, fcPos, fcI, fcJ, atoms, atomsOut, diagnostics >>
  /\ UNCHANGED << netVars, tlVars >>

WriteSpecies ==
  /\ pc = "analysed"
  /\ output' = write_species(speciesFile, speciesList, n_atoms)
  /\ pc' = "species_written"
  /\ UNCHANGED << speciesFile, reactionFile, ftype, speciesList, reactionList,
                  lostSpecies, removedDup, dupPairs >>
  /\ UNCHANGED << fcVars, tlVars >>

WriteReactions ==
  /\ pc = "filtered"
  /\ LET w == write_reactions(reactionList)
     IN /\ reactionList' = w.list
        /\ output' = w.text
        /\ pc' = IF w.err THEN "IndexError" ELSE "reactions_written"
  /\ UNCHANGED << speciesFile, reactionFile, ftype, speciesList,
                  lostSpecies, removedDup, dupPairs >>
  /\ UNCHANGED << fcVars, tlVars >>

EvapLists ==
  /\ pc = "filtered"
  /\ \E answer \in [ 1..Len(speciesList) -> Answers ] :
       LET w == evap_lists(speciesFile, speciesList, answer)
       IN /\ output' = w.text
          /\ pc' = IF w.end = "done" THEN "evap_written" ELSE w.end
  /\ UNCHANGED << speciesFile, reactionFile, ftype, speciesList, reactionList,
                  lostSpecies, removedDup, dupPairs >>
  /\ UNCHANGED << fcVars, tlVars >>

NextWrite ==
  \/ ReadSpeciesFile
  \/ ReadReactionFile
  \/ FilterSpecies
  \/ FindConstituents
  \/ WriteSpecies
  \/ WriteReactions
  \/ EvapLists
  \/ WriteOdes

SpecWrite == InitWrite /\ [][NextWrite]_vars

(***************************************************************************)
(* truncate_line on its own, one action per pass of its while loop.  The   *)
(* strings are assignments as write_odes_f90 builds them: a left-hand     *)
(* side and a sum of terms.                                                *)
(***************************************************************************)
MaxTerms == 36

tLong == << "+", "R", "A", "T", "E", "(", "1", ")", "*", "Y", "(", "1", ")", "*", "Y", "(", "2", ")", "*", "Y", "(", "3", ")", "*", "Y", "(", "4", ")", "*", "Y", "(", "5", ")", "*", "Y", "(", "6", ")", "*", "Y", "(", "7", ")", "*", "Y", "(", "8", ")", "*", "Y", "(", "9", ")", "*", "Y", "(", "1", ")" >>
tDiv == << "-", "R", "A", "T", "E", "(", "2", ")", "/", "Y", "(", "3", ")", "*", "D" >>
tMid == << "+", "2", "*", "R", "A", "T", "E", "(", "1", "0", ")", "*", "Y", "(", "2", ")", "*", "Y", "(", "3", ")", "*", "Y", "(", "1", "1", ")", "*", "D" >>

TermSet == { tLong, tDiv, tMid }

\* a, b, a, b, ... : n terms
RECURSIVE Alternate(_, _, _)
Alternate(a, b, n) == IF n = 0 THEN << >> ELSE a \o Alternate(b, a, n - 1)

TruncInputs ==
  { pLossHead \o Alternate(a, b, n) \o << "\n" >> :
      a \in TermSet, b \in TermSet, n \in 1..MaxTerms }

InitTrunc ==
  /\ pc = "tl_loop"
  /\ tlOrig \in TruncInputs
  /\ tl = truncate_begin(tlOrig)
  /\ speciesFile = << >>
  /\ reactionFile = << >>
  /\ ftype = "UCL"
  /\ speciesList = << >>
  /\ reactionList = << >>
  /\ lostSpecies = << >>
  /\ removedDup = << >>
  /\ dupPairs = << >>
  /\ output = << >>
  /\ FCIdle

\* a pass of the loop that writes a continuation line
TruncContinue ==
  /\ pc = "tl_loop"
  /\ Len(tl.input) > lineLength
  /\ tl.lines + 1 /= maxlines
  /\ tl' = truncate_continue(tl)
  /\ UNCHANGED << pc, tlOrig, netVars, fcVars >>

\* the pass in which the counter reaches maxlines: a new equation is started
TruncRestart ==
  /\ pc = "tl_loop"
  /\ Len(tl.input) > lineLength
  /\ tl.lines + 1 = maxlines
  /\ tl' = truncate_restart(tl)
  /\ UNCHANGED << pc, tlOrig, netVars, fcVars >>

\* "result += input; return result"
TruncReturn ==
  /\ pc = "tl_loop"
  /\ Len(tl.input) <= lineLength
  /\ tl' = [ tl EXCEPT !.result = tl.result \o tl.input ]
  /\ pc' = "tl_done"
  /\ UNCHANGED << tlOrig, netVars, fcVars >>

NextTrunc == TruncContinue \/ TruncRestart \/ TruncReturn

SpecTrunc == InitTrunc /\ [][NextTrunc]_vars

(***************************************************************************)
(* Properties of the loader, the species filter and the reaction checker.  *)
(***************************************************************************)
Filtered == pc \in { "filtered", "checked" }

Slots(reaction) == Range(reaction.reactants) \cup Range(reaction.products)

\* the species of the species file, as read
InputSpecies == read_species_file(speciesFile).list

\* C1: after read_reaction_file and filter_species every reactant and
\* product slot of every reaction is empty, 'NAN', a process token of the
\* keep-list, or the name of a species still in the species list.
C1_SlotsKnown ==
  Filtered =>
    \A r \in 1..Len(reactionList) : \A x \in Slots(reactionList[r]) :
      x \in KeepTokens \/ \E k \in 1..Len(speciesList) : speciesList[k] = x

\* C1 witness: a reaction was dropped by the loader, a reaction was kept,
\* and filter_species removed a species.
C1_Witness ==
  /\ pc = "filtered"
  /\ Len(reactionList) > 0
  /\ Len(reactionList) < Len(reactionFile)
  /\ lostSpecies /= << >>
  /\ speciesList /= << >>

\* C2: after filter_species no species is left that occurs in no reaction,
\* and every orphan of the input is in lostSpecies.
C2_NoOrphanLeft ==
  Filtered =>
    /\ \A k \in 1..Len(speciesList) : keepFlag(speciesList[k], reactionList)
    /\ \A k \in 1..Len(InputSpecies) :
         ~ keepFlag(InputSpecies[k], reactionList)
           => InputSpecies[k] \in Range(lostSpecies)

\* C3: after filter_species species names are unique in the list, and a
\* name that is used by a reaction and occurs k >= 2 times in the input
\* occurs exactly once.
C3_NamesUnique ==
  Filtered =>
    /\ \A i, j \in 1..Len(speciesList) :
         i /= j => speciesList[i] /= speciesList[j]
    /\ \A k \in 1..Len(InputSpecies) :
         keepFlag(InputSpecies[k], reactionList)
           => Count(speciesList, InputSpecies[k]) = 1

Reported(i, j) == \E p \in 1..Len(dupPairs) : dupPairs[p] = << i, j >>

EqualSets(i, j) ==
  /\ { reactionList[i].reactants[k] : k \in 1..3 }
       = { reactionList[j].reactants[k] : k \in 1..3 }
  /\ { reactionList[i].products[k] : k \in 1..4 }
       = { reactionList[j].products[k] : k \in 1..4 }

\* C4 (as stated): no pair (i, i) is reported, (j, i) is reported whenever
\* (i, j) is, and a pair is reported exactly when the reactant sets and the
\* product sets of the two reactions are equal.
C4_Symmetric ==
  pc = "checked" =>
    \A i, j \in 1..Len(reactionList) :
      /\ ~ Reported(i, i)
      /\ Reported(i, j) => Reported(j, i)
      /\ i /= j => (Reported(i, j) <=> EqualSets(i, j))

\* C4 (amended): no pair (i, i) is reported; the pair (i, j) is reported
\* exactly when i /= j, the reactant sets and the product sets are equal
\* and i is the first reaction of the list with these sets; hence (j, i)
\* is never reported along with (i, j); no pair is reported twice.
C4_FirstOfClass ==
  pc = "checked" =>
    /\ \A i, j \in 1..Len(reactionList) :
         /\ ~ Reported(i, i)
         /\ Reported(i, j) <=>
              /\ i /= j
              /\ EqualSets(i, j)
              /\ \A k \in 1..(i - 1) : ~ EqualSets(k, i)
         /\ Reported(i, j) => ~ Reported(j, i)
    /\ \A p, q \in 1..Len(dupPairs) : dupPairs[p] = dupPairs[q] => p = q
    /\ \A p \in 1..Len(dupPairs) :
         /\ dupPairs[p][1] \in 1..Len(reactionList)
         /\ dupPairs[p][2] \in 1..Len(reactionList)

\* C4 witness: three reactions with the same sets, the first two written
\* in a different order, reported as (1,2) and (1,3).
C4_Witness ==
  /\ pc = "checked"
  /\ Len(reactionList) = 3
  /\ dupPairs = << << 1, 2 >>, << 1, 3 >> >>
  /\ reactionList[1] /= reactionList[2]

(***************************************************************************)
(* Properties of the loader on rows with a wrong number of fields.         *)
(***************************************************************************)
\* the field counts of the input formats: seven fields for a species, twelve
\* for a UCL reaction, at least fourteen (the nine leading columns and the
\* five rate fields) for a UMIST reaction
RightFieldCount(row, kind) ==
  IF kind = "species" THEN Len(row) = 7
  ELSE IF kind = "UCL" THEN Len(row) = 12
  ELSE Len(row) >= 14

\* C11: a species row or a reaction row with a wrong number of fields makes
\* loading fail: no load completes on a file holding such a row, whether or
\* not the participants of the row pass the keep-list test.
C11_MalformedRowsFail ==
  /\ pc \in { "species_read", "reactions_read" } =>
       \A k \in 1..Len(speciesFile) : RightFieldCount(speciesFile[k], "species")
  /\ pc = "reactions_read" =>
       \A k \in 1..Len(reactionFile) : RightFieldCount(reactionFile[k], ftype)

(***************************************************************************)
(* Properties of the writers as operations on the network.                 *)
(***************************************************************************)
LoadedSpecies == read_species_file(speciesFile).list

LoadedReactions == read_reaction_file(reactionFile, LoadedSpecies, ftype).list

AfterWriter == pc \in { "written", "species_written", "reactions_written", "evap_written" }

\* C12: after write_odes_f90, write_species, write_reactions or evap_lists
\* has run, the species list is the list filter_species returned and the
\* reaction list is the list read_reaction_file returned: same members,
\* same order, every field (beta included) as it was.
C12_WritersLeaveNetwork ==
  AfterWriter =>
    /\ speciesList = filter_species(LoadedSpecies, LoadedReactions).list
    /\ reactionList = LoadedReactions

(***************************************************************************)
(* Properties of the generated ODE text.                                   *)
(***************************************************************************)
Written == pc = "written"

NSpecies == Len(speciesList)

H2Row == UCLRow(<< sH, sH, sEmpty, sH2, sEmpty, sEmpty, sEmpty >> \o RateFields)
H2GrainRow == UCLRow(<< sH, sH, sHash, sH2, sHash, sEmpty, sEmpty >> \o RateFields)
H2PlusHRow == UCLRow(<< sH, sH, sEmpty, sH2, sH, sEmpty, sEmpty >> \o RateFields)

\* the statements written for species n: those after YDOT(n-1) up to YDOT(n)
BlockOf(stmts, n, kind) ==
  { k \in 1..Len(stmts) :
      /\ StatementKind(stmts[k]) = kind
      /\ \E y \in (k + 1)..Len(stmts) :
           /\ StartsWith(stmts[y], pYdotHead(n))
           /\ \A m \in k..(y - 1) : StatementKind(stmts[m]) /= "ydot" }

\* C5: a reaction H + H -> H2 or H + H + # -> H2 + # built by Reaction from
\* a loaded row is recognised by is_H2_formation, the loss of H then holds
\* '-2*RATE(i)*D' and the production of H2 '+RATE(i)*Y(H_index)*D';
\* H + H -> H2 + H is not recognised.
C5_H2FormationRecognised ==
  Written =>
    \A i \in 1..Len(reactionList) :
      LET r == reactionList[i]
          stmts == Statements(output)
      IN /\ r \in { Reaction(H2Row), Reaction(H2GrainRow) } =>
              /\ is_H2_formation(r.reactants, r.products)
              /\ \A n \in 1..NSpecies : speciesList[n] = sH =>
                   \E k \in BlockOf(stmts, n, "loss") :
                     Contains(stmts[k], << "-", "2", "*" >> \o RateRef(i) \o << "*", "D" >>)
              /\ \A n \in 1..NSpecies : speciesList[n] = sH2 =>
                   \E k \in BlockOf(stmts, n, "prod") :
                     Contains(stmts[k], << "+" >> \o RateRef(i) \o << "*" >>
                                          \o YRef(H_index(speciesList)) \o << "*", "D" >>)
         /\ r = Reaction(H2PlusHRow) => ~ is_H2_formation(r.reactants, r.products)

\* C6: the electron balance has exactly one term per charged species, +Y(n)
\* for a name ending in '+', -Y(n) for a name ending in '-' (also for the
\* first charged species), and is the constant 0 when no species is charged.
C6_ElectronBalanceSigns ==
  Written =>
    LET elec == Statements(output)[1]
        want == ChargedTerms(speciesList, 1)
    IN /\ StartsWith(elec, pElecHead(NSpecies + 1))
       /\ IF want = << >> THEN RhsOf(elec) = << "0" >>
          ELSE SignedTerms(RhsOf(elec), 1, 1) = want

\* C7: the text starts with the one electron-balance statement for Y(N+1),
\* then come exactly N statements YDOT(1)..YDOT(N) in list order, each
\* preceded only by LOSS/PROD statements of its own species (their rates
\* are reactions that destroy, respectively form, that species); every Y
\* index is in 1..N+1 and every RATE index in 1..number of reactions.
C7_OutputLayout ==
  Written =>
    LET stmts == Statements(output)
        ydots == { k \in 1..Len(stmts) : StatementKind(stmts[k]) = "ydot" }
    IN /\ Len(stmts) >= 2
       /\ StartsWith(stmts[1], pElecHead(NSpecies + 1))
       /\ stmts[2] = << >>
       /\ \A k \in 3..Len(stmts) : StatementKind(stmts[k]) \in { "loss", "prod", "ydot" }
       /\ Cardinality(ydots) = NSpecies
       /\ \A n \in 1..NSpecies :
            \E k \in ydots :
              /\ StartsWith(stmts[k], pYdotHead(n))
              /\ Cardinality({ m \in ydots : m < k }) = n - 1
       /\ Len(stmts) > 2 => StatementKind(stmts[Len(stmts)]) = "ydot"
       /\ \A n \in 1..NSpecies :
            /\ \A k \in BlockOf(stmts, n, "loss") :
                 \A i \in RateIndices(stmts[k]) :
                   /\ i \in 1..Len(reactionList)
                   /\ speciesList[n] \in Range(reactionList[i].reactants)
            /\ \A k \in BlockOf(stmts, n, "prod") :
                 \A i \in RateIndices(stmts[k]) :
                   /\ i \in 1..Len(reactionList)
                   /\ speciesList[n] \in Range(reactionList[i].products)
       /\ YIndices(output) \subseteq 1..(NSpecies + 1)
       /\ RateIndices(output) \subseteq 1..Len(reactionList)

\* C7 witness: three species, a wrapped statement, LOSS and PROD written.
C7_Witness ==
  /\ Written
  /\ NSpecies = 3
  /\ Contains(output, sContMark \o sContPrefix)
  /\ Contains(output, pLossHead)
  /\ Contains(output, pProdHead)
  /\ Contains(output, pYdotHead(3) \o << "P", "R", "O", "D", "+", "Y", "(", "3", ")", "*", "L", "O", "S", "S" >>)

(***************************************************************************)
(* Properties of the single terms of LOSS and PROD.                        *)
(***************************************************************************)
\* the pieces of a text between the occurrences of the character c
SplitOn(text, c) ==
  LET pos == { k \in 1..Len(text) : text[k] = c }
      n == Cardinality(pos)
  IN [ i \in 1..(n + 1) |->
         SubSeq(text, NthOf(pos, i - 1) + 1,
                (IF i <= n THEN NthOf(pos, i) ELSE Len(text) + 1) - 1) ]

\* the terms of a right-hand side, each with its leading sign
SignPositions(rhs) == { k \in 1..Len(rhs) : rhs[k] \in { "+", "-" } }

TermAt(rhs, p) ==
  LET later == { q \in SignPositions(rhs) : q > p }
  IN SubSeq(rhs, p, (IF later = {} THEN Len(rhs) + 1
                     ELSE CHOOSE q \in later : \A x \in later : q <= x) - 1)

\* the terms with RATE(i) in the statements of the given kind of species n
TermsFor(n, i, kind) ==
  LET stmts == Statements(output)
  IN { TermAt(RhsOf(stmts[k]), p) :
         << k, p >> \in { kp \in BlockOf(stmts, n, kind) \X (1..Len(output)) :
                            /\ kp[2] \in SignPositions(RhsOf(stmts[kp[1]]))
                            /\ Contains(TermAt(RhsOf(stmts[kp[1]]), kp[2]), RateRef(i)) } }

\* the factors of a term: what stands between its '*', without the sign
Factors(term) == SplitOn(Tail(term), "*")

IsYFactor(f) == Len(f) >= 4 /\ f[1] = "Y" /\ f[2] = "("

YFactors(term) == SelectSeq(Factors(term), IsYFactor)

HasDensity(term) == Factors(term)[Len(Factors(term))] = << "D" >>

ProcessScaled(reaction) ==
  sFREEZE \in Range(reaction.reactants) \/ sDESOH2 \in Range(reaction.reactants)

\* C13: the production term of a reaction that is no H2 formation carries D
\* exactly when it holds more than one abundance factor Y(..) or the
\* reaction has FREEZE or DESOH2 among its reactants, also for a species
\* that is both a reactant and a product of the reaction.
C13_ProductionDensity ==
  Written =>
    \A n \in 1..NSpecies : \A i \in 1..Len(reactionList) :
      LET r == reactionList[i]
      IN (speciesList[n] \in Range(r.products)
            /\ ~ is_H2_formation(r.reactants, r.products)) =>
           /\ TermsFor(n, i, "prod") /= {}
           /\ \A t \in TermsFor(n, i, "prod") :
                /\ t[1] = "+"
                /\ HasDensity(t) <=> (Len(YFactors(t)) > 1 \/ ProcessScaled(r))

\* how often Y(j) stands in the loss term of species n for the reaction:
\* once per occurrence of species j among the reactants, one less for the
\* species itself, and for j = N+1 once per occurrence of E-
LossFactorCount(reaction, n, j) ==
  IF j = NSpecies + 1 THEN Count(reaction.reactants, sElectron)
  ELSE IF j = n THEN Count(reaction.reactants, speciesList[n]) - 1
  ELSE Count(reaction.reactants, speciesList[j])

C15_YdotNonEmpty ==
  Written =>
    LET stmts == Statements(output)
    IN \A n \in 1..NSpecies : \A k \in 1..Len(stmts) :
         StartsWith(stmts[k], pYdotHead(n)) =>
           LET rhs == RhsOf(stmts[k])
               prod == << "P", "R", "O", "D" >>
               loss == YRef(n) \o << "*", "L", "O", "S", "S" >>
           IN /\ rhs \in { prod, loss, prod \o << "+" >> \o loss }
              /\ Contains(rhs, prod) => BlockOf(stmts, n, "prod") /= {}
              /\ Contains(rhs, << "L", "O", "S", "S" >>) => BlockOf(stmts, n, "loss") /= {}

(***************************************************************************)
(* Properties of the constituent analysis.                                 *)
(***************************************************************************)
\* C8: find_constituents terminates on every species list: every species
\* gets its n_atoms and the function returns, also when a name holds a
\* segment that is in no table.
C8_Terminates == <>(pc = "fc_done" /\ Len(n_atoms) = Len(speciesList))

WellFormed(k) == \A p \in 1..Len(nameParts[k]) : nameParts[k][p] \in GoodParts

\* the atoms a part stands for: none for a structural symbol, the element
\* once, or as many times as the digit that follows it
PartAtoms(part) ==
  IF part[1] \in symbols THEN << >>
  ELSE IF IsDigit(part[Len(part)])
       THEN Rep(<< SubSeq(part, 1, Len(part) - 1) >>, DigitVal(part[Len(part)]))
       ELSE << part >>

RECURSIVE ExpectedAtoms(_)
ExpectedAtoms(parts) ==
  IF parts = << >> THEN << >> ELSE PartAtoms(Head(parts)) \o ExpectedAtoms(Tail(parts))

IsPrefix(s, t) == Len(s) <= Len(t) /\ \A k \in 1..Len(s) : s[k] = t[k]

\* C9: for a name composed of element symbols, digits after them and
\* structural symbols only, the scan collects the atoms left to right (at
\* any moment an initial part of the name's atoms) and, when the species
\* is finished, atoms are the name's atoms and n_atoms their number.
C9_Decomposition ==
  \A k \in 1..Len(nameParts) :
    WellFormed(k) =>
      /\ (pc = "fc_scan" /\ fcPos = k) => IsPrefix(atoms, ExpectedAtoms(nameParts[k]))
      /\ k <= Len(n_atoms) =>
           /\ atomsOut[k] = ExpectedAtoms(nameParts[k])
           /\ n_atoms[k] = Len(ExpectedAtoms(nameParts[k]))

(***************************************************************************)
(* Properties of truncate_line.                                            *)
(***************************************************************************)
TLDone == pc = "tl_done"

Operators == { "+", "-", "*", "/" }

\* what the pass that reaches maxlines puts between two parts of a
\* statement: a newline and "lhs = lhs"
RestartMark == << "\n" >> \o tl.lhs \o << "=" >> \o tl.lhs

IsContLine(line) ==
  /\ StartsWith(line, sContPrefix)
  /\ Len(line) > Len(sContPrefix)
  /\ line[Len(sContPrefix) + 1] \in Operators

IsRestartLine(line) ==
  /\ StartsWith(line, tl.lhs \o << "=" >> \o tl.lhs)
  /\ Len(line) > 2 * Len(tl.lhs) + 1
  /\ line[2 * Len(tl.lhs) + 2] \in { "+", "-" }

EndsWithMark(line) ==
  Len(line) >= 2 /\ line[Len(line) - 1] = " " /\ line[Len(line)] = "&"

\* every physical line after the first starts where the statement was cut,
\* and that place holds an operator; a line is marked as continued exactly
\* when a continuation line follows it
SplitsAtOperators ==
  LET lines == SplitLines(tl.result)
  IN \A k \in 2..Len(lines) :
       /\ IsContLine(lines[k]) \/ IsRestartLine(lines[k])
       /\ EndsWithMark(lines[k - 1]) <=> IsContLine(lines[k])

\* C10 (as stated): the string is split at operators only, and the lines
\* joined without continuation markers and prefixes are the original
\* string, whatever the number of continuation lines.
C10_RoundTrip ==
  TLDone => /\ SplitsAtOperators
            /\ StripCont(tl.result) = tlOrig

\* C10 (amended): the string is split at operators only; the joined lines
\* are the original string as long as the statement needs fewer than
\* maxlines continuation lines; in general they are the original string
\* with "newline, lhs = lhs" put in at every maxlines-th cut.
C10_RoundTripUpToRestarts ==
  TLDone => /\ SplitsAtOperators
            /\ RemoveAll(StripCont(tl.result), RestartMark) = tlOrig
            /\ Cardinality(NewLines(tl.result)) <= maxlines
                 => StripCont(tl.result) = tlOrig

\* C10 witness: a statement that was continued and restarted.
C10_Witness ==
  /\ TLDone
  /\ Contains(tl.result, sContMark \o sContPrefix)
  /\ Contains(tl.result, RestartMark)
  /\ Cardinality(NewLines(tl.result)) > maxlines

\* C16: every physical line truncate_line has written, the continuation
\* marker ' &' included, is at most lineLength (72) characters long, for
\* statements whose tokens are shorter than the room left after the
\* continuation prefix.
C16_LinesFit ==
  \A k \in 1..Len(SplitLines(tl.result)) :
    Len(SplitLines(tl.result)[k]) <= lineLength

====
